---- MODULE Spec2Model ----
(***************************************************************************)
(* Verification model of aarmor01/AA_practicas:                            *)
(*   Practica5/p5/nn.py            two-layer neural network                *)
(*   Practica4/p4/logistic_reg.py  (regularized) logistic regression       *)
(*                                                                         *)
(* Numbers.  A float is modelled on a fixed-point grid: the integer v      *)
(* stands for the real v/One.  Every product and quotient is rounded to    *)
(* the grid, as a float operation rounds to the nearest representable      *)
(* value.  np.log can leave the grid (log(0) = -inf, 0 * -inf = nan), so   *)
(* the values that flow through a cost are extended numbers: records       *)
(* [k |-> "fin" | "inf" | "-inf" | "nan", v |-> grid value].               *)
(* Arrays are sequences of rows (row-major, as numpy's default layout).    *)
(***************************************************************************)
EXTENDS Integers, Sequences, FiniteSets

\* the float 1.0 on the grid
One == 4

\* round(p / q) for q > 0
RoundDiv(p, q) == (2 * p + q) \div (2 * q)

\* a * b of two grid values
Mul(a, b) == RoundDiv(a * b, One)

RECURSIVE SumSeq(_)
SumSeq(s) == IF Len(s) = 0 THEN 0 ELSE s[1] + SumSeq(Tail(s))

(***************************************************************************)
(* Extended numbers                                                        *)
(***************************************************************************)
Fin(n) == [k |-> "fin", v |-> n]
PosInf == [k |-> "inf", v |-> 0]
NegInf == [k |-> "-inf", v |-> 0]
NaN == [k |-> "nan", v |-> 0]
\* a local name that was never assigned
Unbound == [k |-> "unbound", v |-> 0]

IsFinite(e) == e.k = "fin"

ESign(e) == IF e.k = "inf" THEN 1
            ELSE IF e.k = "-inf" THEN -1
            ELSE IF e.v > 0 THEN 1 ELSE IF e.v < 0 THEN -1 ELSE 0

ENeg(e) == IF e.k = "fin" THEN Fin(-e.v)
           ELSE IF e.k = "inf" THEN NegInf
           ELSE IF e.k = "-inf" THEN PosInf ELSE NaN

EAdd(a, b) == IF a.k = "nan" \/ b.k = "nan" THEN NaN
              ELSE IF a.k = "fin" /\ b.k = "fin" THEN Fin(a.v + b.v)
              ELSE IF a.k = "fin" THEN b
              ELSE IF b.k = "fin" THEN a
              ELSE IF a.k = b.k THEN a ELSE NaN

EMul(a, b) == IF a.k = "nan" \/ b.k = "nan" THEN NaN
              ELSE IF a.k = "fin" /\ b.k = "fin" THEN Fin(Mul(a.v, b.v))
              ELSE IF ESign(a) * ESign(b) = 0 THEN NaN
              ELSE IF ESign(a) * ESign(b) > 0 THEN PosInf ELSE NegInf

\* e / q for a positive count q
EDiv(e, q) == IF e.k = "fin" THEN Fin(RoundDiv(e.v, q)) ELSE e

RECURSIVE ESumSeq(_)
ESumSeq(s) == IF Len(s) = 0 THEN Fin(0) ELSE EAdd(s[1], ESumSeq(Tail(s)))

(***************************************************************************)
(* numpy arrays                                                            *)
(***************************************************************************)
\* a row as a stored sequence (every element computed once)
Row(f) == f \o <<>>

Rows(A) == Len(A)
Cols(A) == IF Len(A) = 0 THEN 0 ELSE Len(A[1])

\* all entries of A, row after row
RECURSIVE ravel(_)
ravel(A) == IF Len(A) = 0 THEN <<>> ELSE A[1] \o ravel(Tail(A))

\* (variant: column-major, numpy's order='F')
reshape_F(v, r, c) == Row([i \in 1..r |-> Row([j \in 1..c |-> v[(j - 1) * r + i]])])

\* np.reshape(v, (r, c)) of a flat vector, row-major
reshape(v, r, c) == Row([i \in 1..r |-> Row([j \in 1..c |-> v[(i - 1) * c + j]])])
reshapeOK(v, r, c) == Len(v) = r * c

concatenate(u, v) == u \o v

\* v[:n] and v[n:] with numpy's clipping of the bound
SliceTo(v, n) == IF n >= Len(v) THEN v ELSE SubSeq(v, 1, n)
SliceFrom(v, n) == IF n >= Len(v) THEN <<>> ELSE SubSeq(v, n + 1, Len(v))

\* np.zeros(shape)
zeros(r, c) == Row([i \in 1..r |-> Row([j \in 1..c |-> 0])])

\* np.column_stack([np.ones((m, 1)), A])
column_stack_ones(A) == Row([i \in 1..Rows(A) |-> <<One>> \o A[i]])

\* A @ B.T
MatMulT(A, B) ==
    Row([i \in 1..Rows(A) |-> Row([j \in 1..Rows(B) |->
        SumSeq([c \in 1..Cols(A) |-> Mul(A[i][c], B[j][c])])])])
MatMulTOK(A, B) == Cols(A) = Cols(B)

MatAdd(A, B) ==
    Row([i \in 1..Rows(A) |-> Row([j \in 1..Cols(A) |-> A[i][j] + B[i][j]])])
MatSub(A, B) ==
    Row([i \in 1..Rows(A) |-> Row([j \in 1..Cols(A) |-> A[i][j] - B[i][j]])])
MatScale(a, A) ==
    Row([i \in 1..Rows(A) |-> Row([j \in 1..Cols(A) |-> Mul(a, A[i][j])])])

\* numpy broadcasting of two lengths along one axis
BroadcastOK(p, q) == p = q \/ p = 1 \/ q = 1
BroadcastLen(p, q) == IF p = 1 THEN q ELSE p
BroadcastIdx(len, i) == IF len = 1 THEN 1 ELSE i

(***************************************************************************)
(* logistic_reg.sigmoid (nn.py calls it as ut.sigmoid): 1 / (1 + e ** -z), *)
(* rounded to the grid.  z is a grid value (z / One is the real argument). *)
(* The result saturates to exactly 1.0 and exactly 0.0 for large |z|, as   *)
(* the float result does; on this grid that happens from |z / One| = 2,    *)
(* in binary64 from z of about 37 (1.0) and about -710 (0.0).              *)
(***************************************************************************)
sigmoid(z) == IF z >= 8 THEN One
              ELSE IF z >= 3 THEN 3
              ELSE IF z >= -2 THEN 2
              ELSE IF z >= -7 THEN 1
              ELSE 0

sigmoidMat(Z) ==
    Row([i \in 1..Rows(Z) |-> Row([j \in 1..Cols(Z) |-> sigmoid(Z[i][j])])])

\* np.log of a grid value
log(h) == IF h < 0 THEN NaN
          ELSE IF h = 0 THEN NegInf
          ELSE IF h = 1 THEN Fin(-6)
          ELSE IF h = 2 THEN Fin(-3)
          ELSE IF h = 3 THEN Fin(-1)
          ELSE Fin(0)

(***************************************************************************)
(* nn.feed_forward.  A failed call (numpy raises ValueError on a matmul    *)
(* whose inner dimensions differ) has err = TRUE.                          *)
(***************************************************************************)
feed_forward(theta1, theta2, X) ==
    LET a1 == column_stack_ones(X)
        ok1 == MatMulTOK(a1, theta1)
        z2 == MatMulT(a1, theta1)
        a2 == column_stack_ones(sigmoidMat(z2))
        ok2 == MatMulTOK(a2, theta2)
        z3 == MatMulT(a2, theta2)
        a3 == sigmoidMat(z3)
    IN  IF ~ok1 THEN [err |-> TRUE, a3 |-> <<>>, a2 |-> <<>>, a1 |-> a1]
        ELSE IF ~ok2 THEN [err |-> TRUE, a3 |-> <<>>, a2 |-> a2, a1 |-> a1]
        ELSE [err |-> FALSE, a3 |-> a3, a2 |-> a2, a1 |-> a1]

\* np.sum(pow(theta1[:, 1:], 2)) + np.sum(pow(theta2[:, 1:], 2))
SumSqFrom(theta, c0) ==
    SumSeq(ravel(Row([i \in 1..Rows(theta) |->
                   Row([j \in 1..(Cols(theta) - c0 + 1) |->
                       Mul(theta[i][j + c0 - 1], theta[i][j + c0 - 1])])])))
\* first regularized column (1-based): theta[:, 1:] starts at the second
FirstRegCol == 2
reg_factor(theta1, theta2) ==
    SumSqFrom(theta1, FirstRegCol) + SumSqFrom(theta2, FirstRegCol)

\* (y * np.log(h0)) + ((1 - y) * np.log(1 - h0)) at one entry
CostTerm(yij, hij) ==
    EAdd(EMul(Fin(yij), log(hij)), EMul(Fin(One - yij), log(One - hij)))

\* the elementwise expression of cost, over the broadcast shape of y and h0
CostTerms(y, h0) ==
    LET r == BroadcastLen(Rows(y), Rows(h0))
        c == BroadcastLen(Cols(y), Cols(h0))
    IN  Row([i \in 1..r |-> Row([j \in 1..c |->
            CostTerm(y[BroadcastIdx(Rows(y), i)][BroadcastIdx(Cols(y), j)],
                     h0[BroadcastIdx(Rows(h0), i)][BroadcastIdx(Cols(h0), j)])])])
CostTermsOK(y, h0) ==
    BroadcastOK(Rows(y), Rows(h0)) /\ BroadcastOK(Cols(y), Cols(h0))

(***************************************************************************)
(* nn.cost                                                                 *)
(***************************************************************************)
cost(theta1, theta2, X, y, lambda_) ==
    LET m == Rows(X)
        ff == feed_forward(theta1, theta2, X)
        h0 == ff.a3
        c == ESumSeq(ravel(CostTerms(y, h0)))
        reg == reg_factor(theta1, theta2)
        J == EAdd(EDiv(ENeg(c), m), Fin(RoundDiv(Mul(lambda_, reg), 2 * m)))
    IN  IF ff.err \/ ~CostTermsOK(y, h0) THEN [err |-> TRUE, J |-> Unbound]
        ELSE [err |-> FALSE, J |-> J]

(***************************************************************************)
(* nn.backprop: the per-example loop                                       *)
(***************************************************************************)
\* d3 = (a3[i] - y[i])[np.newaxis], the two rows broadcast against each other
delta3(a3i, yi) ==
    Row([j \in 1..BroadcastLen(Len(a3i), Len(yi)) |->
        a3i[BroadcastIdx(Len(a3i), j)] - yi[BroadcastIdx(Len(yi), j)]])

\* gZ = a2[i] * (1 - a2[i]); d2 = (d3 @ theta2 * gZ)[:, 1:]
delta2(theta2, d3, a2i) ==
    Tail([c \in 1..Len(a2i) |->
            Mul(SumSeq([j \in 1..Len(d3) |-> Mul(d3[j], theta2[j][c])]),
                Mul(a2i[c], One - a2i[c]))])

\* u.T @ v[np.newaxis] for two rows u, v
Outer(u, v) ==
    Row([r \in 1..Len(u) |-> Row([c \in 1..Len(v) |-> Mul(u[r], v[c])])])

\* y[i] exists, a3[i] - y[i] broadcasts, and d3 @ theta2 has matching inner
\* dimensions (numpy raises IndexError / ValueError otherwise)
ExampleOK(theta2, a3, y, i) ==
    /\ i <= Rows(y)
    /\ BroadcastOK(Len(a3[i]), Len(y[i]))
    /\ BroadcastLen(Len(a3[i]), Len(y[i])) = Rows(theta2)

\* (variant: grad = contribution)
Accumulate_assign(grad, contribution) == contribution

\* grad += contribution
Accumulate(grad, contribution) == MatAdd(grad, contribution)

\* one pass of the loop body for example i on the running sums acc
AccumulateExample(acc, theta2, ff, y, i) ==
    LET d3 == delta3(ff.a3[i], y[i])
        d2 == delta2(theta2, d3, ff.a2[i])
    IN  [grad1 |-> Accumulate(acc.grad1, Outer(d2, ff.a1[i])),
         grad2 |-> Accumulate(acc.grad2, Outer(d3, ff.a2[i]))]

\* the loop over the examples listed in order
RECURSIVE AccumulateOver(_, _, _, _, _)
AccumulateOver(order, acc, theta2, ff, y) ==
    IF Len(order) = 0 THEN acc
    ELSE AccumulateOver(Tail(order),
                        AccumulateExample(acc, theta2, ff, y, order[1]),
                        theta2, ff, y)

\* for i in range(m)
range(m) == Row([i \in 1..m |-> i])

\* (variant: grad = (grad + lambda_ * theta) / m, the bias column included)
Finalize_all(grad, theta, lambda_, m) ==
    Row([r \in 1..Rows(grad) |-> Row([c \in 1..Cols(grad) |->
        RoundDiv(grad[r][c] + Mul(lambda_, theta[r][c]), m)])])

\* grad[:, 0] /= m;  grad[:, 1:] = (grad[:, 1:] + lambda_ * theta[:, 1:]) / m
Finalize(grad, theta, lambda_, m) ==
    Row([r \in 1..Rows(grad) |-> Row([c \in 1..Cols(grad) |->
        IF c < FirstRegCol THEN RoundDiv(grad[r][c], m)
        ELSE RoundDiv(grad[r][c] + Mul(lambda_, theta[r][c]), m)])])

(***************************************************************************)
(* nn.backprop                                                             *)
(***************************************************************************)
backprop(theta1, theta2, X, y, lambda_) ==
    LET m == Rows(X)
        Jr == cost(theta1, theta2, X, y, lambda_)
        ff == feed_forward(theta1, theta2, X)
        zero == [grad1 |-> zeros(Rows(theta1), Cols(theta1)),
                 grad2 |-> zeros(Rows(theta2), Cols(theta2))]
        S == AccumulateOver(range(m), zero, theta2, ff, y)
    IN  IF Jr.err \/ \E i \in 1..m : ~ExampleOK(theta2, ff.a3, y, i)
        THEN [err |-> TRUE, J |-> Unbound, grad1 |-> <<>>, grad2 |-> <<>>]
        ELSE [err |-> FALSE, J |-> Jr.J,
              grad1 |-> Finalize(S.grad1, theta1, lambda_, m),
              grad2 |-> Finalize(S.grad2, theta2, lambda_, m)]

(***************************************************************************)
(* nn.backprop_min: the parameter packing                                  *)
(***************************************************************************)
\* theta1 = np.reshape(theta[:t1_s[0] * t1_s[1]], t1_s)
\* theta2 = np.reshape(theta[t1_s[0] * t1_s[1]:], t2_s)
unflatten(theta, t1_s, t2_s) ==
    [theta1 |-> reshape(SliceTo(theta, t1_s[1] * t1_s[2]), t1_s[1], t1_s[2]),
     theta2 |-> reshape(SliceFrom(theta, t1_s[1] * t1_s[2]), t2_s[1], t2_s[2])]
unflattenOK(theta, t1_s, t2_s) ==
    /\ reshapeOK(SliceTo(theta, t1_s[1] * t1_s[2]), t1_s[1], t1_s[2])
    /\ reshapeOK(SliceFrom(theta, t1_s[1] * t1_s[2]), t2_s[1], t2_s[2])

\* np.concatenate([np.ravel(A), np.ravel(B)])
flatten(A, B) == concatenate(ravel(A), ravel(B))

backprop_min(theta, X, y, t1_s, t2_s, lambda_) ==
    LET u == unflatten(theta, t1_s, t2_s)
        r == backprop(u.theta1, u.theta2, X, y, lambda_)
    IN  IF ~unflattenOK(theta, t1_s, t2_s) \/ r.err
        THEN [err |-> TRUE, J |-> Unbound, grad |-> <<>>]
        ELSE [err |-> FALSE, J |-> r.J, grad |-> flatten(r.grad1, r.grad2)]

(***************************************************************************)
(* Memory.  Python passes arrays by reference and numpy's augmented        *)
(* assignments write into the array they are applied to, so the arrays     *)
(* live in mem, a record from object names to values, and a local name of  *)
(* a running call holds the name of the object it is bound to.             *)
(***************************************************************************)
VARIABLES
    mem,            \* the arrays
    pc,             \* where the running call stands
    it,             \* loop iterations completed by the running call
    nBackprop,      \* backprop calls made by nn.gradient
    J,              \* the local J of nn.gradient
    f_theta1,       \* object bound to theta1 in nn.gradient's frame
    f_theta2,       \* object bound to theta2 in nn.gradient's frame
    num_iters,      \* argument
    alpha,          \* argument
    lambda_,        \* argument
    t1_s,           \* argument of backprop_min
    t2_s,           \* argument of backprop_min
    ret,            \* outcome of the last call that ended
    reads,          \* history: (theta1, theta2) read by each backprop call of nn.gradient
    writes,         \* history: (theta1, theta2) written by each update of nn.gradient
    in0,            \* history: mem as the caller built it
    added,          \* examples the accumulation loop has added, in the order it took them
    acc,            \* running sums of the accumulation loop
    cost_function,      \* argument of gradient_descent
    gradient_function,  \* argument of gradient_descent
    f_w,            \* object bound to w in gradient_descent's frame
    f_b,            \* object bound to b in gradient_descent's frame
    J_history       \* the local J_history of gradient_descent

vars == <<mem, pc, it, nBackprop, J, f_theta1, f_theta2, num_iters, alpha,
          lambda_, t1_s, t2_s, ret, reads, writes, in0, added, acc,
          cost_function, gradient_function, f_w, f_b, J_history>>

nnFrame == <<it, nBackprop, J, f_theta1, f_theta2, reads, writes>>
args == <<num_iters, alpha, lambda_, t1_s, t2_s, in0>>
accVars == <<added, acc>>
lrVars == <<cost_function, gradient_function, f_w, f_b, J_history>>

NoRet == [op |-> "none", err |-> FALSE, val |-> <<>>]

\* (variant: the name is bound to the array whose shape it takes)
np_zeros_alias(name, like) == like

\* The object a name is bound to after  name = np.zeros(like.shape):
\* a new array, not the one whose shape it takes.
np_zeros(name, like) == name

\* backprop run on the objects t1, t2, x, yy of memory m: its result and the
\* memory it leaves (grad1, grad2 are the arrays its in-place updates write)
backprop_mem(m, t1, t2, x, yy, lam) ==
    LET r == backprop(m[t1], m[t2], m[x], m[yy], lam)
        g1 == np_zeros("grad1", t1)
        g2 == np_zeros("grad2", t2)
    IN  [r |-> r, grad1 |-> g1, grad2 |-> g2,
         mem |-> IF r.err THEN m
                 ELSE [m EXCEPT ![g1] = r.grad1, ![g2] = r.grad2]]

\* backprop_min run on the flat object th: theta1, theta2 are views of th
backprop_min_mem(m, th, x, yy, s1, s2, lam) ==
    LET r == backprop_min(m[th], m[x], m[yy], s1, s2, lam)
        u == unflatten(m[th], s1, s2)
        b == backprop(u.theta1, u.theta2, m[x], m[yy], lam)
        g1 == np_zeros("grad1", th)
        g2 == np_zeros("grad2", th)
    IN  [r |-> r,
         mem |-> IF r.err THEN m
                 ELSE [m EXCEPT ![g1] = b.grad1, ![g2] = b.grad2]]

\* ref -= val : numpy writes the difference into the object ref is bound to
isub(m, ref, val) == [m EXCEPT ![ref] = MatSub(m[ref], val)]

\* (variant: one pass too many)
LoopContinues_inclusive(done, n) == done <= n

\* for _ in range(num_iters): is there another pass
LoopContinues(done, n) == done < n

\* (variant: J keeps the cost of the first pass)
AssignJ_first(Jprev, Jnew) == IF Jprev = Unbound THEN Jnew ELSE Jprev

\* J, grad1, grad2 = backprop(...): the value J holds afterwards
AssignJ(Jprev, Jnew) == Jnew

(***************************************************************************)
(* The caller: direct calls of the side-effect-free operations             *)
(***************************************************************************)
AtRest == pc \in {"idle", "returned", "raised"}

CallFeedForward ==
    /\ AtRest
    /\ \E r \in {feed_forward(mem.theta1, mem.theta2, mem.X)} :
           ret' = [op |-> "feed_forward", err |-> r.err, val |-> r]
    /\ UNCHANGED <<mem, pc, nnFrame, args, accVars, lrVars>>

CallCost ==
    /\ AtRest
    /\ \E r \in {cost(mem.theta1, mem.theta2, mem.X, mem.y, lambda_)} :
           ret' = [op |-> "cost", err |-> r.err, val |-> r]
    /\ UNCHANGED <<mem, pc, nnFrame, args, accVars, lrVars>>

CallBackprop ==
    /\ AtRest
    /\ \E b \in {backprop_mem(mem, "theta1", "theta2", "X", "y", lambda_)} :
           /\ ret' = [op |-> "backprop", err |-> b.r.err, val |-> b.r]
           /\ mem' = b.mem
    /\ UNCHANGED <<pc, nnFrame, args, accVars, lrVars>>

CallBackpropMin ==
    /\ AtRest
    /\ \E b \in {backprop_min_mem(mem, "theta", "X", "y", t1_s, t2_s, lambda_)} :
           /\ ret' = [op |-> "backprop_min", err |-> b.r.err, val |-> b.r]
           /\ mem' = b.mem
    /\ UNCHANGED <<pc, nnFrame, args, accVars, lrVars>>

(***************************************************************************)
(* nn.gradient, one step per backprop call and per parameter update        *)
(***************************************************************************)
GradientEnter ==
    /\ pc = "idle"
    /\ pc' = "loop"
    /\ f_theta1' = "theta1"
    /\ f_theta2' = "theta2"
    /\ UNCHANGED <<mem, it, nBackprop, J, reads, writes, ret, args, accVars, lrVars>>

LoopBackprop ==
    /\ pc = "loop"
    /\ LoopContinues(it, num_iters)
    /\ \E b \in {backprop_mem(mem, f_theta1, f_theta2, "X", "y", lambda_)} :
           /\ nBackprop' = nBackprop + 1
           /\ reads' = Append(reads, <<mem[f_theta1], mem[f_theta2]>>)
           /\ IF b.r.err
              THEN /\ pc' = "raised"
                   /\ ret' = [op |-> "gradient", err |-> TRUE, val |-> "ValueError"]
                   /\ UNCHANGED <<mem, J>>
              ELSE /\ pc' = "update"
                   /\ J' = AssignJ(J, b.r.J)
                   /\ mem' = b.mem
                   /\ UNCHANGED ret
    /\ UNCHANGED <<it, f_theta1, f_theta2, writes, args, accVars, lrVars>>

LoopUpdate ==
    /\ pc = "update"
    /\ \E m1 \in {isub(mem, f_theta1, MatScale(alpha, mem.grad1))} :
       \E m2 \in {isub(m1, f_theta2, MatScale(alpha, m1.grad2))} :
           /\ mem' = m2
           /\ writes' = Append(writes, <<m2[f_theta1], m2[f_theta2]>>)
    /\ it' = it + 1
    /\ pc' = "loop"
    /\ UNCHANGED <<nBackprop, J, f_theta1, f_theta2, reads, ret, args, accVars, lrVars>>

\* return J, theta1, theta2  (UnboundLocalError when the loop body never ran)
GradientReturn ==
    /\ pc = "loop"
    /\ ~LoopContinues(it, num_iters)
    /\ IF J = Unbound
       THEN /\ pc' = "raised"
            /\ ret' = [op |-> "gradient", err |-> TRUE, val |-> "UnboundLocalError"]
       ELSE /\ pc' = "returned"
            /\ ret' = [op |-> "gradient", err |-> FALSE,
                       val |-> [J |-> J, theta1 |-> f_theta1, theta2 |-> f_theta2]]
    /\ UNCHANGED <<mem, nnFrame, args, accVars, lrVars>>

(***************************************************************************)
(* A training session: the caller builds theta1, theta2, X, y and the flat *)
(* theta, calls the side-effect-free operations at will and nn.gradient    *)
(* once.                                                                   *)
(***************************************************************************)
MaxIters == 3
MaxTheta == 8
ThetaVals == {-MaxTheta, 0, MaxTheta \div 2}
Lambdas == {-One, 0, One}
Alphas == {One, 2 * One}
Thetas == {<<<<a, b>>>> : a \in ThetaVals, b \in ThetaVals}
Xs == {<<<<One>>, <<0>>>>}
Ys == {<<<<One>>, <<0>>>>, <<<<0>>, <<One>>>>}

Shape(A) == <<Rows(A), Cols(A)>>

Idle ==
    /\ added = <<>>
    /\ acc = <<>>
    /\ cost_function = "none"
    /\ gradient_function = "none"
    /\ f_w = "none"
    /\ f_b = "none"
    /\ J_history = <<>>

Init ==
    /\ \E th1 \in Thetas, th2 \in Thetas, x \in Xs, yy \in Ys :
          mem = [theta1 |-> th1, theta2 |-> th2, X |-> x, y |-> yy,
                 theta |-> flatten(th1, th2), grad1 |-> <<>>, grad2 |-> <<>>]
    /\ in0 = mem
    /\ t1_s = Shape(mem.theta1)
    /\ t2_s = Shape(mem.theta2)
    /\ num_iters \in -1..MaxIters
    /\ alpha \in Alphas
    /\ lambda_ \in Lambdas
    /\ pc = "idle"
    /\ it = 0
    /\ nBackprop = 0
    /\ J = Unbound
    /\ f_theta1 = "none"
    /\ f_theta2 = "none"
    /\ ret = NoRet
    /\ reads = <<>>
    /\ writes = <<>>
    /\ Idle

Next ==
    \/ CallFeedForward
    \/ CallCost
    \/ CallBackprop
    \/ CallBackpropMin
    \/ GradientEnter
    \/ LoopBackprop
    \/ LoopUpdate
    \/ GradientReturn

Spec == Init /\ [][Next]_vars

\* Python runs a call to its end: a call of nn.gradient that has been entered
\* takes its next step (the steps of the call are the ones that change pc).
GradientStep ==
    /\ pc \in {"loop", "update"}
    /\ pc' \in {"loop", "update", "returned", "raised"}
    /\ pc' # pc
FairSpec == Spec /\ WF_pc(GradientStep)

(***************************************************************************)
(* Properties of the training session                                      *)
(***************************************************************************)
\* theta - alpha * grad for both matrices, from one backprop on p = <<theta1, theta2>>
DescentStep(p) ==
    LET b == backprop(p[1], p[2], in0.X, in0.y, lambda_)
    IN  <<MatSub(p[1], MatScale(alpha, b.grad1)), MatSub(p[2], MatScale(alpha, b.grad2))>>

\* the parameters as they stand after n updates of the running call
ParamsAfter(n) == IF n = 0 THEN <<in0.theta1, in0.theta2>> ELSE writes[n]

C1_Inv ==
    /\ Len(reads) = nBackprop
    /\ Len(writes) = it
    /\ nBackprop <= (IF num_iters > 0 THEN num_iters ELSE 0)
    /\ nBackprop = (IF pc = "update" THEN it + 1 ELSE it)
    /\ \A n \in 1..Len(reads) :
          reads[n] = (IF n = 1 THEN <<in0.theta1, in0.theta2>> ELSE writes[n - 1])
    /\ \A n \in 1..Len(writes) : writes[n] = DescentStep(reads[n])
    /\ pc = "returned" => it = num_iters
    /\ num_iters >= 1 => pc # "raised"

\* C1: for num_iters >= 1 nn.gradient makes exactly num_iters passes and then
\* returns; each pass calls backprop on the current parameters and only then
\* subtracts alpha*grad from both matrices, so every backprop call after the
\* first reads what the previous pass wrote; the loop neither stops early
\* nor runs an extra pass.
C1_ExactlyNumItersSequentialPasses ==
    /\ []C1_Inv
    /\ (pc = "loop" /\ num_iters >= 1) ~> (pc = "returned" /\ it = num_iters)

C1_Witness ==
    /\ pc = "returned"
    /\ num_iters >= 2
    /\ nBackprop = num_iters
    /\ writes[1] # reads[1]
    /\ writes[2] # writes[1]

\* C2: a call of nn.gradient with lambda_ < 0 or num_iters <= 0 is rejected:
\* no backprop call is made, theta1/theta2 keep their values and the call
\* does not return normally.
C2_InvalidHyperparametersRejected ==
    (lambda_ < 0 \/ num_iters <= 0) =>
        /\ nBackprop = 0
        /\ mem.theta1 = in0.theta1
        /\ mem.theta2 = in0.theta2
        /\ pc # "returned"

C3_Step ==
    /\ mem'.X = mem.X
    /\ mem'.y = mem.y
    /\ mem'.theta = mem.theta
    /\ (mem'.theta1 # mem.theta1 \/ mem'.theta2 # mem.theta2) => pc = "update"

C3_Inv ==
    /\ pc = "idle" => mem.theta1 = in0.theta1 /\ mem.theta2 = in0.theta2
    /\ (pc = "returned" /\ ret.op = "gradient") =>
          /\ ret.val.theta1 = "theta1"
          /\ ret.val.theta2 = "theta2"
    /\ pc = "returned" =>
          /\ mem.theta1 = writes[num_iters][1]
          /\ mem.theta2 = writes[num_iters][2]

\* C3: feed_forward, cost, backprop and backprop_min leave theta1, theta2, the
\* flat theta, X and y as they were; only the update step of nn.gradient
\* changes theta1/theta2, and it changes the caller's own arrays, which are
\* the ones nn.gradient returns.
C3_OnlyGradientMutatesTheta == [][C3_Step]_vars /\ []C3_Inv

C3_Witness ==
    /\ pc = "returned"
    /\ ret.op = "backprop_min"
    /\ ~ret.err
    /\ mem.theta1 # in0.theta1
    /\ mem.theta2 # in0.theta2

\* C7: every cost that is computed (by cost, backprop, backprop_min or inside
\* nn.gradient) is a finite number.
C7_CostAlwaysFinite ==
    /\ (ret.op \in {"cost", "backprop", "backprop_min"} /\ ~ret.err) => IsFinite(ret.val.J)
    /\ J # Unbound => IsFinite(J)

\* C8: for num_iters >= 1 nn.gradient returns the J of its last backprop call,
\* i.e. the cost of the parameters after num_iters - 1 updates, together with
\* the parameters after all num_iters updates.
C8_ReturnsLastJAndUpdatedTheta ==
    (pc = "returned" /\ ret.op = "gradient") =>
        /\ num_iters >= 1
        /\ ret.val.J = cost(ParamsAfter(num_iters - 1)[1], ParamsAfter(num_iters - 1)[2],
                            in0.X, in0.y, lambda_).J
        /\ mem[ret.val.theta1] = ParamsAfter(num_iters)[1]
        /\ mem[ret.val.theta2] = ParamsAfter(num_iters)[2]

C8_Witness ==
    /\ pc = "returned"
    /\ ret.op = "gradient"
    /\ num_iters >= 2
    /\ IsFinite(ret.val.J)
    /\ ret.val.J # cost(in0.theta1, in0.theta2, in0.X, in0.y, lambda_).J
    /\ ret.val.J # cost(mem.theta1, mem.theta2, mem.X, mem.y, lambda_).J

(***************************************************************************)
(* The accumulation loop of nn.backprop, one step per example.  The code   *)
(* takes the examples in the order 0..m-1; here the loop takes them in any *)
(* order, which is what a permutation of the rows of X and y, or a         *)
(* parallel reduction, amounts to.                                         *)
(***************************************************************************)
NumExamples == 3
AccThetas2 == {<<<<0, MaxTheta \div 2>>>>, <<<<-(MaxTheta \div 2), MaxTheta>>>>}
AccLambdas == {0, One}
Columns(m) == {Row([i \in 1..m |-> <<f[i]>>]) : f \in [1..m -> {0, One}]}
AccYs(m) == {Row([i \in 1..m |-> <<IF i % 2 = b THEN One ELSE 0>>]) : b \in {0, 1}}

Range(s) == {s[i] : i \in 1..Len(s)}

InitAcc ==
    /\ \E th1 \in Thetas, th2 \in AccThetas2,
          x \in Columns(NumExamples), yy \in AccYs(NumExamples) :
          mem = [theta1 |-> th1, theta2 |-> th2, X |-> x, y |-> yy,
                 theta |-> flatten(th1, th2), grad1 |-> <<>>, grad2 |-> <<>>]
    /\ in0 = mem
    /\ t1_s = Shape(mem.theta1)
    /\ t2_s = Shape(mem.theta2)
    /\ lambda_ \in AccLambdas
    /\ num_iters = 0
    /\ alpha = 0
    /\ pc = "acc"
    /\ added = <<>>
    /\ acc = [grad1 |-> zeros(t1_s[1], t1_s[2]), grad2 |-> zeros(t2_s[1], t2_s[2])]
    /\ it = 0
    /\ nBackprop = 0
    /\ J = Unbound
    /\ f_theta1 = "theta1"
    /\ f_theta2 = "theta2"
    /\ ret = NoRet
    /\ reads = <<>>
    /\ writes = <<>>
    /\ cost_function = "none"
    /\ gradient_function = "none"
    /\ f_w = "none"
    /\ f_b = "none"
    /\ J_history = <<>>

\* lines 109-116 for one example i that has not been added yet
AddExample(i) ==
    /\ pc = "acc"
    /\ i \notin Range(added)
    /\ \E ff \in {feed_forward(mem[f_theta1], mem[f_theta2], mem.X)} :
          acc' = AccumulateExample(acc, mem[f_theta2], ff, mem.y, i)
    /\ added' = Append(added, i)
    /\ UNCHANGED <<mem, pc, ret, nnFrame, args, lrVars>>

\* lines 118-124 once every example has been added
FinalizeGrads ==
    /\ pc = "acc"
    /\ Len(added) = Rows(mem.X)
    /\ pc' = "finalized"
    /\ ret' = [op |-> "backprop", err |-> FALSE,
               val |-> [grad1 |-> Finalize(acc.grad1, mem[f_theta1], lambda_, Rows(mem.X)),
                        grad2 |-> Finalize(acc.grad2, mem[f_theta2], lambda_, Rows(mem.X))]]
    /\ UNCHANGED <<mem, acc, added, nnFrame, args, lrVars>>

NextAcc ==
    \/ \E i \in 1..Rows(mem.X) : AddExample(i)
    \/ FinalizeGrads

SpecAcc == InitAcc /\ [][NextAcc]_vars

\* the rows of A in the order p
PermuteRows(A, p) == Row([i \in 1..Len(p) |-> A[p[i]]])

Orders(m) == {p \in [1..m -> 1..m] : \A i, j \in 1..m : p[i] = p[j] => i = j}

\* theta with its bias column (column 0) replaced by the value v
WithBias(theta, v) ==
    Row([r \in 1..Rows(theta) |-> Row([c \in 1..Cols(theta) |->
        IF c = 1 THEN v ELSE theta[r][c]])])

\* C9: whatever the order in which the per-example contributions are added to
\* the zero-initialised grad1/grad2, and for every permutation of the rows
\* of X and y together, the gradients are those backprop returns.
C9_AccumulationOrderIndependent ==
    pc = "finalized" =>
        LET b == backprop(mem.theta1, mem.theta2, mem.X, mem.y, lambda_)
        IN  /\ ret.val.grad1 = b.grad1
            /\ ret.val.grad2 = b.grad2
            /\ \A p \in Orders(Rows(mem.X)) :
                  LET bp == backprop(mem.theta1, mem.theta2,
                                     PermuteRows(mem.X, p), PermuteRows(mem.y, p), lambda_)
                  IN  bp.grad1 = b.grad1 /\ bp.grad2 = b.grad2

C9_Witness ==
    /\ pc = "finalized"
    /\ added[1] = Len(added)
    /\ added[2] = 1
    /\ mem.X[1] # mem.X[2]
    /\ mem.y[1] # mem.y[2]
    /\ \E r \in 1..Rows(acc.grad1) : acc.grad1[r][2] # 0
    /\ \E r \in 1..Rows(acc.grad2) : acc.grad2[r][2] # 0

\* C5: bias columns are never regularized.  With S the accumulated sums,
\* backprop returns grad[:,0] = S[:,0]/m and grad[:,1:] = (S[:,1:] +
\* lambda_*theta[:,1:])/m for both layers and every lambda_, so column 0 does
\* not depend on lambda_; and the regularization term of cost does not
\* change when only column 0 of theta1 or theta2 changes.
C5_BiasColumnNotRegularized ==
    pc = "finalized" =>
        LET m == Rows(mem.X)
            t1 == mem.theta1
            t2 == mem.theta2
        IN  /\ \A lam \in Lambdas :
                LET b == backprop(t1, t2, mem.X, mem.y, lam)
                IN  /\ \A r \in 1..Rows(t1) :
                          /\ b.grad1[r][1] = RoundDiv(acc.grad1[r][1], m)
                          /\ b.grad1[r][1] = ret.val.grad1[r][1]
                          /\ \A c \in 2..Cols(t1) :
                                b.grad1[r][c] = RoundDiv(acc.grad1[r][c] + Mul(lam, t1[r][c]), m)
                    /\ \A r \in 1..Rows(t2) :
                          /\ b.grad2[r][1] = RoundDiv(acc.grad2[r][1], m)
                          /\ b.grad2[r][1] = ret.val.grad2[r][1]
                          /\ \A c \in 2..Cols(t2) :
                                b.grad2[r][c] = RoundDiv(acc.grad2[r][c] + Mul(lam, t2[r][c]), m)
            /\ \A v \in ThetaVals :
                  /\ reg_factor(WithBias(t1, v), t2) = reg_factor(t1, t2)
                  /\ reg_factor(t1, WithBias(t2, v)) = reg_factor(t1, t2)

C5_Witness ==
    /\ pc = "finalized"
    /\ lambda_ # 0
    /\ mem.theta1[1][1] # 0
    /\ mem.theta2[1][1] # 0
    /\ acc.grad1[1][1] # 0
    /\ ret.val.grad1[1][2] # RoundDiv(acc.grad1[1][2], Rows(mem.X))

(***************************************************************************)
(* Direct calls with arguments of any shape: a network declared with one   *)
(* input, one hidden unit and two outputs (t1_s = (1, 2), t2_s = (2, 2)),  *)
(* called with well-shaped and ill-shaped theta1, theta2, theta, X and y.  *)
(***************************************************************************)
MinVals == {0, MaxTheta \div 2}
MinThetas1 == {<<<<a, b>>>> : a \in MinVals, b \in MinVals} \cup {<<<<0, One, One>>>>}
MinThetas2 == {<<<<a, b>>, <<c, d>>>> : a \in MinVals, b \in MinVals, c \in {0, -One}, d \in MinVals}
                 \cup {<<<<0, One, 0>>, <<One, 0, 0>>>>}
MinXs == {<<<<One>>, <<0>>>>, <<<<One, 0>>, <<0, One>>>>, <<<<One>>>>}
MinYs == {<<<<One, 0>>, <<0, One>>>>, <<<<0, One>>, <<0, One>>>>,
          <<<<One, 0>>>>, <<<<One>>, <<0>>>>, <<<<One>>>>,
          <<<<One, 0>>, <<0, One>>, <<One, 0>>>>}
\* the flat vector the caller hands over: the packed parameters, or one
\* entry short, or one entry long
FlatVariants(v) == {v, Tail(v), v \o <<One>>}

InitMin ==
    /\ \E th1 \in MinThetas1, th2 \in MinThetas2, x \in MinXs, yy \in MinYs :
       \E v \in FlatVariants(flatten(th1, th2)) :
          mem = [theta1 |-> th1, theta2 |-> th2, X |-> x, y |-> yy,
                 theta |-> v, grad1 |-> <<>>, grad2 |-> <<>>]
    /\ in0 = mem
    /\ t1_s = <<1, 2>>
    /\ t2_s = <<2, 2>>
    /\ lambda_ \in AccLambdas
    /\ num_iters = 0
    /\ alpha = 0
    /\ pc = "idle"
    /\ it = 0
    /\ nBackprop = 0
    /\ J = Unbound
    /\ f_theta1 = "none"
    /\ f_theta2 = "none"
    /\ ret = NoRet
    /\ reads = <<>>
    /\ writes = <<>>
    /\ acc = <<>>
    /\ Idle

NextMin ==
    \/ CallFeedForward
    \/ CallCost
    \/ CallBackprop
    \/ CallBackpropMin

SpecMin == InitMin /\ [][NextMin]_vars

\* row and column (1-based) of entry p of a raveled array with c columns
RowOf(p, c) == ((p - 1) \div c) + 1
ColOf(p, c) == ((p - 1) % c) + 1

\* C4: the packing of backprop_min is an inverse pair: packing the unpacked
\* theta gives theta back for every theta of the declared length, unpacking
\* the packed (theta1, theta2) gives them back for every pair of the
\* declared shapes, and the flat gradient has theta's length with the
\* gradient of the parameter stored at entry p as its entry p.
C4_PackingInversePair ==
    LET n1 == t1_s[1] * t1_s[2]
        n2 == t2_s[1] * t2_s[2]
        u == unflatten(mem.theta, t1_s, t2_s)
    IN  /\ Len(mem.theta) = n1 + n2 =>
              /\ unflattenOK(mem.theta, t1_s, t2_s)
              /\ Shape(u.theta1) = t1_s
              /\ Shape(u.theta2) = t2_s
              /\ flatten(u.theta1, u.theta2) = mem.theta
        /\ (Shape(mem.theta1) = t1_s /\ Shape(mem.theta2) = t2_s) =>
              /\ unflattenOK(flatten(mem.theta1, mem.theta2), t1_s, t2_s)
              /\ unflatten(flatten(mem.theta1, mem.theta2), t1_s, t2_s)
                    = [theta1 |-> mem.theta1, theta2 |-> mem.theta2]
        /\ (ret.op = "backprop_min" /\ ~ret.err) =>
              LET b == backprop(u.theta1, u.theta2, mem.X, mem.y, lambda_)
              IN  /\ Len(ret.val.grad) = Len(mem.theta)
                  /\ \A p \in 1..n1 :
                        /\ u.theta1[RowOf(p, t1_s[2])][ColOf(p, t1_s[2])] = mem.theta[p]
                        /\ ret.val.grad[p] = b.grad1[RowOf(p, t1_s[2])][ColOf(p, t1_s[2])]
                  /\ \A p \in 1..n2 :
                        /\ u.theta2[RowOf(p, t2_s[2])][ColOf(p, t2_s[2])] = mem.theta[n1 + p]
                        /\ ret.val.grad[n1 + p] = b.grad2[RowOf(p, t2_s[2])][ColOf(p, t2_s[2])]

C4_Witness ==
    /\ ret.op = "backprop_min"
    /\ ~ret.err
    /\ mem.theta[1] # mem.theta[2]
    /\ mem.theta[4] # mem.theta[5]
    /\ ret.val.grad[4] # ret.val.grad[5]
    /\ mem.theta = flatten(mem.theta1, mem.theta2)

\* the shapes the arguments of a call must have for the network of theta2's
\* k outputs and X's m examples
WellShaped(th1, th2, x, yy) ==
    /\ Cols(th1) = Cols(x) + 1
    /\ Cols(th2) = Rows(th1) + 1
    /\ Shape(yy) = <<Rows(x), Rows(th2)>>

\* C6: cost and backprop called with a y that is not (m x k), or with
\* theta1/theta2/X whose inner dimensions do not match, and backprop_min called
\* with a theta of the wrong length (or such X, y), end in an error.
C6_ShapeMismatchFailsFast ==
    /\ (ret.op \in {"cost", "backprop"}
            /\ ~WellShaped(mem.theta1, mem.theta2, mem.X, mem.y)) => ret.err
    /\ (ret.op = "feed_forward"
            /\ (Cols(mem.theta1) # Cols(mem.X) + 1 \/ Cols(mem.theta2) # Rows(mem.theta1) + 1))
          => ret.err
    /\ (ret.op = "backprop_min"
            /\ (\/ Len(mem.theta) # t1_s[1] * t1_s[2] + t2_s[1] * t2_s[2]
                \/ t1_s[2] # Cols(mem.X) + 1
                \/ Shape(mem.y) # <<Rows(mem.X), t2_s[1]>>)) => ret.err

(***************************************************************************)
(* Practica4/p4/logistic_reg.py.  X is m x n, w a vector of n weights, b a *)
(* scalar; y holds integer labels (the ~ of compute_cost is only defined   *)
(* on integer or boolean arrays).                                          *)
(***************************************************************************)
\* k * e for an integer k and an extended number e
EMulInt(k, e) == IF e.k = "nan" THEN NaN
                 ELSE IF e.k = "fin" THEN Fin(k * e.v)
                 ELSE IF k = 0 THEN NaN
                 ELSE IF k * ESign(e) > 0 THEN PosInf ELSE NegInf

\* sigmoid(X @ w + b)
f_wb(X, w, b) ==
    Row([i \in 1..Rows(X) |->
            sigmoid(SumSeq([c \in 1..Len(w) |-> Mul(X[i][c], w[c])]) + b)])

\* ~y on an integer label (bitwise not)
invert(yi) == -yi - 1

compute_cost(X, y, w, b) ==
    LET m == Rows(X)
        f == f_wb(X, w, b)
        loss == EAdd(ESumSeq([i \in 1..m |-> EMulInt(invert(y[i]), log(f[i]))]),
                     ENeg(ESumSeq([i \in 1..m |-> EMulInt(1 - y[i], log(One - f[i]))])))
    IN  EDiv(loss, m)

compute_gradient(X, y, w, b) ==
    LET m == Rows(X)
        f == f_wb(X, w, b)
    IN  [dj_dw |-> Row([c \in 1..Len(w) |->
                        RoundDiv(SumSeq([i \in 1..m |-> Mul(X[i][c], f[i] - y[i] * One)]), m)]),
         dj_db |-> RoundDiv(SumSeq([i \in 1..m |-> f[i] - y[i] * One]), m)]

\* the default of compute_cost_reg's and compute_gradient_reg's lambda_
DefaultLambda == One

compute_cost_reg(X, y, w, b, lam) ==
    LET m == Rows(X)
        reg == Mul(RoundDiv(lam, 2 * m), SumSeq([c \in 1..Len(w) |-> Mul(w[c], w[c])]))
    IN  EAdd(compute_cost(X, y, w, b), Fin(reg))

compute_gradient_reg(X, y, w, b, lam) ==
    LET m == Rows(X)
        g == compute_gradient(X, y, w, b)
    IN  [dj_dw |-> Row([c \in 1..Len(w) |-> g.dj_dw[c] + RoundDiv(Mul(lam, w[c]), m)]),
         dj_db |-> g.dj_db]

\* cost_function(X, y, w, b): gradient_descent passes no lambda_
CallCostFunction(name, X, y, w, b) ==
    IF name = "compute_cost_reg" THEN compute_cost_reg(X, y, w, b, DefaultLambda)
    ELSE compute_cost(X, y, w, b)

\* gradient_function(X, y, w, b, lambda_)
CallGradientFunction(name, X, y, w, b, lam) ==
    IF name = "compute_gradient_reg" THEN compute_gradient_reg(X, y, w, b, lam)
    ELSE compute_gradient(X, y, w, b)

\* The object a name is bound to after  name = copy.deepcopy(original)
deepcopy(name, original) == name

\* J_history = []; w = copy.deepcopy(w_in); b = copy.deepcopy(b_in)
DescentEnter ==
    /\ pc = "idle"
    /\ pc' = "descent"
    /\ J_history' = <<>>
    /\ f_w' = deepcopy("w", "w_in")
    /\ f_b' = deepcopy("b", "b_in")
    /\ mem' = [mem EXCEPT ![f_w'] = mem.w_in, ![f_b'] = mem.b_in]
    /\ UNCHANGED <<it, nBackprop, J, f_theta1, f_theta2, reads, writes, ret, args,
                   accVars, cost_function, gradient_function>>

\* one pass of the loop: gradient, update of w and b, cost, append
DescentPass ==
    /\ pc = "descent"
    /\ LoopContinues(it, num_iters)
    /\ \E g \in {CallGradientFunction(gradient_function, mem.X, mem.y,
                                      mem[f_w], mem[f_b], lambda_)} :
       \E w1 \in {Row([c \in 1..Len(mem[f_w]) |-> mem[f_w][c] - Mul(alpha, g.dj_dw[c])])} :
       \E b1 \in {mem[f_b] - Mul(alpha, g.dj_db)} :
          /\ mem' = [mem EXCEPT ![f_w] = w1, ![f_b] = b1]
          /\ writes' = Append(writes, <<w1, b1>>)
          /\ J_history' = Append(J_history,
                                 CallCostFunction(cost_function, mem.X, mem.y, w1, b1))
    /\ it' = it + 1
    /\ UNCHANGED <<pc, nBackprop, J, f_theta1, f_theta2, reads, ret, args, accVars,
                   cost_function, gradient_function, f_w, f_b>>

\* return w, b, J_history
DescentReturn ==
    /\ pc = "descent"
    /\ ~LoopContinues(it, num_iters)
    /\ pc' = "returned"
    /\ ret' = [op |-> "gradient_descent", err |-> FALSE,
               val |-> [w |-> f_w, b |-> f_b, J_history |-> J_history]]
    /\ UNCHANGED <<mem, nnFrame, args, accVars, lrVars>>

LRVals == {-One, 0, One}
LRLambdas == {0, One, 2 * One}
LRXs == {<<<<One>>, <<0>>>>, <<<<One>>, <<-One>>>>}
LRYs == {<<1, 0>>, <<0, 1>>}

InitLR ==
    /\ \E x \in LRXs, yy \in LRYs, w0 \in LRVals, b0 \in LRVals :
          mem = [X |-> x, y |-> yy, w_in |-> <<w0>>, b_in |-> b0, w |-> <<>>, b |-> 0]
    /\ in0 = mem
    /\ cost_function \in {"compute_cost", "compute_cost_reg"}
    /\ gradient_function \in {"compute_gradient", "compute_gradient_reg"}
    /\ lambda_ \in LRLambdas
    /\ alpha \in Alphas
    /\ num_iters \in 0..MaxIters
    /\ pc = "idle"
    /\ it = 0
    /\ J_history = <<>>
    /\ f_w = "none"
    /\ f_b = "none"
    /\ ret = NoRet
    /\ writes = <<>>
    /\ reads = <<>>
    /\ nBackprop = 0
    /\ J = Unbound
    /\ f_theta1 = "none"
    /\ f_theta2 = "none"
    /\ t1_s = <<>>
    /\ t2_s = <<>>
    /\ added = <<>>
    /\ acc = <<>>

NextLR ==
    \/ DescentEnter
    \/ DescentPass
    \/ DescentReturn

SpecLR == InitLR /\ [][NextLR]_vars

\* cost_function evaluated with the regularization constant lam
CostWithLambda(name, X, y, w, b, lam) ==
    IF name = "compute_cost_reg" THEN compute_cost_reg(X, y, w, b, lam)
    ELSE compute_cost(X, y, w, b)

\* C10: every entry of J_history is cost_function evaluated on the (w, b)
\* just updated with the lambda_ that gradient_descent was given, and
\* w_in/b_in are left unmodified.
C10_HistoryUsesCallersLambda ==
    /\ \A n \in 1..Len(J_history) :
          J_history[n] = CostWithLambda(cost_function, mem.X, mem.y,
                                        writes[n][1], writes[n][2], lambda_)
    /\ mem.w_in = in0.w_in
    /\ mem.b_in = in0.b_in

====
